---------------------------- MODULE Spec2Model ----------------------------
(***************************************************************************)
(* A model of yahoo_search/core.py: the two URL normalisers (get_abs_link, *)
(* get_abs_image) and the five extractors (search, search_news,            *)
(* search_videos, weather, autocomplete).                                  *)
(*                                                                         *)
(* The library keeps no state between calls.  A behaviour is a sequence of *)
(* independent calls: a call picks its input (a string, or the parsed page *)
(* the HTTP fetch produced), runs the whole function and leaves its        *)
(* outcome in `out`; Return hands control back to the caller.              *)
(*                                                                         *)
(* Python values: a str is a TLA+ string; Optional[str] is None (<<>>) or  *)
(* Some(s) (<<s>>); a dict is a record whose DOMAIN is the set of keys     *)
(* present; a list is a sequence.  An outcome is Ret(value) or             *)
(* Raise(exception class, message).  Assertions are enabled (the default   *)
(* interpreter mode).                                                      *)
(***************************************************************************)
EXTENDS Integers, Sequences, FiniteSets, TLC

VARIABLES fn, arg, out

vars == <<fn, arg, out>>

---------------------------------------------------------------------------
(* Python values *)

None == <<>>

Some(s) == <<s>>

Ret(v) == [kind |-> "return", value |-> v]

Raise(e, m) == [kind |-> "raise", exc |-> e, msg |-> m]

Returned(o) == o.kind = "return"

Raised(o) == o.kind = "raise"

---------------------------------------------------------------------------
(* str primitives *)

CharAt(s, i) == SubSeq(s, i, i)

StartsWithAt(s, sub, i) ==
    /\ i + Len(sub) - 1 <= Len(s)
    /\ SubSeq(s, i, i + Len(sub) - 1) = sub

\* str.find: the first position (1-based) at or after `from` where sub
\* occurs, 0 when it does not.
RECURSIVE Find(_, _, _)
Find(s, sub, from) ==
    IF from + Len(sub) - 1 > Len(s) THEN 0
    ELSE IF StartsWithAt(s, sub, from) THEN from
    ELSE Find(s, sub, from + 1)

Contains(s, sub) == Find(s, sub, 1) # 0

\* str.split(sep): the pieces between the non-overlapping occurrences of
\* sep, scanned left to right; a string without sep is its only piece.
RECURSIVE Split(_, _)
Split(s, sep) ==
    LET i == Find(s, sep, 1)
    IN  IF i = 0 THEN <<s>>
        ELSE <<SubSeq(s, 1, i - 1)>>
                 \o Split(SubSeq(s, i + Len(sep), Len(s)), sep)


---------------------------------------------------------------------------
(* urllib.parse, as core.py uses it.  Input strings hold printable ASCII   *)
(* without whitespace, control characters or square brackets, so           *)
(* urlsplit's whitespace stripping and its IPv6 netloc check change        *)
(* nothing and are left out.                                               *)

\* Code points 32..95 and 97..126 (a TLA+ string cannot hold code point 96,
\* the grave accent, which no input below encodes).
PrintableLow ==
    " !\"#$%&'()*+,-./0123456789:;<=>?@ABCDEFGHIJKLMNOPQRSTUVWXYZ[\\]^_"

PrintableHigh == "abcdefghijklmnopqrstuvwxyz{|}~"

UpperHex == "0123456789ABCDEF"

LowerHex == "0123456789abcdef"

SchemeChars ==
    "abcdefghijklmnopqrstuvwxyzABCDEFGHIJKLMNOPQRSTUVWXYZ0123456789+-."

Letters == "abcdefghijklmnopqrstuvwxyzABCDEFGHIJKLMNOPQRSTUVWXYZ"

\* The character with code point n, for printable ASCII.
Chr(n) ==
    IF n <= 95 THEN CharAt(PrintableLow, n - 31)
    ELSE CharAt(PrintableHigh, n - 96)

HexDigits == {CharAt(UpperHex, i) : i \in 1..16}
                 \cup {CharAt(LowerHex, i) : i \in 1..16}

IsHex(c) == c \in HexDigits

HexVal(c) ==
    IF Contains(UpperHex, c) THEN Find(UpperHex, c, 1) - 1
    ELSE Find(LowerHex, c, 1) - 1

\* The decoding of s from position i on: "%" followed by two hex digits
\* becomes the character with that code, any other "%" stays.
RECURSIVE unquote_from(_, _)
unquote_from(s, i) ==
    IF i > Len(s) THEN ""
    ELSE IF /\ CharAt(s, i) = "%"
            /\ i + 2 <= Len(s)
            /\ IsHex(CharAt(s, i + 1))
            /\ IsHex(CharAt(s, i + 2))
         THEN Chr(16 * HexVal(CharAt(s, i + 1)) + HexVal(CharAt(s, i + 2)))
                  \o unquote_from(s, i + 3)
         ELSE CharAt(s, i) \o unquote_from(s, i + 1)

\* urllib.parse.unquote: one left-to-right pass.
unquote(s) == unquote_from(s, 1)

AllIn(s, chars) == \A i \in 1..Len(s) : Contains(chars, CharAt(s, i))

\* urlsplit's scheme test: a ":" not in first place, a leading letter and
\* only scheme characters before the ":".
HasScheme(url) ==
    LET i == Find(url, ":", 1)
    IN  /\ i > 1
        /\ Contains(Letters, CharAt(url, 1))
        /\ AllIn(SubSeq(url, 1, i - 1), SchemeChars)

\* The smallest position at or after `from` of "/", "?" or "#", and
\* Len(url) + 1 when there is none (_splitnetloc).
RECURSIVE NetlocEnd(_, _)
NetlocEnd(url, from) ==
    IF from > Len(url) THEN Len(url) + 1
    ELSE IF CharAt(url, from) \in {"/", "?", "#"} THEN from
    ELSE NetlocEnd(url, from + 1)

\* The text before the first occurrence of sep (url.split(sep, 1)[0]).
Before(s, sep) ==
    LET i == Find(s, sep, 1)
    IN  IF i = 0 THEN s ELSE SubSeq(s, 1, i - 1)

\* urlsplit(url).path: the scheme, the netloc, the fragment and the query
\* are cut off, in that order.
urlsplit_path(url) ==
    LET noScheme == IF HasScheme(url)
                    THEN SubSeq(url, Find(url, ":", 1) + 1, Len(url))
                    ELSE url
        noNetloc == IF StartsWithAt(noScheme, "//", 1)
                    THEN SubSeq(noScheme, NetlocEnd(noScheme, 3),
                                Len(noScheme))
                    ELSE noScheme
    IN  Before(Before(noNetloc, "#"), "?")

---------------------------------------------------------------------------
(* Link / image normalisation *)

\* get_abs_link without the decoding step.
get_abs_link_undecoded(r_search_link) ==
    IF r_search_link = None \/ r_search_link = Some("") THEN Ret("")
    ELSE LET pieces == Split(urlsplit_path(r_search_link[1]), "RU=")
         IN  IF Len(pieces) < 2
             THEN Raise("IndexError", "list index out of range")
             ELSE Ret(Split(pieces[2], "/")[1])

\* get_abs_link with the decoding done before the cut at "/".
get_abs_link_decoded_first(r_search_link) ==
    IF r_search_link = None \/ r_search_link = Some("") THEN Ret("")
    ELSE LET pieces == Split(urlsplit_path(r_search_link[1]), "RU=")
         IN  IF Len(pieces) < 2
             THEN Raise("IndexError", "list index out of range")
             ELSE Ret(Split(unquote(pieces[2]), "/")[1])

\* get_abs_link: "" for None or "", else the percent-decoding of the piece
\* of the URL's path after the first "RU=", up to the next "/".  Indexing
\* piece [1] of the split raises IndexError when the path has no "RU=".
get_abs_link(r_search_link) ==
    IF r_search_link = None \/ r_search_link = Some("") THEN Ret("")
    ELSE LET pieces == Split(urlsplit_path(r_search_link[1]), "RU=")
         IN  IF Len(pieces) < 2
             THEN Raise("IndexError", "list index out of range")
             ELSE Ret(unquote(Split(pieces[2], "/")[1]))

\* get_abs_image: "" for None or "", else "https://" followed by the piece
\* between the first and the second "https://"; IndexError without one.
get_abs_image(yimg_link) ==
    IF yimg_link = None \/ yimg_link = Some("") THEN Ret("")
    ELSE LET pieces == Split(yimg_link[1], "https://")
         IN  IF Len(pieces) < 2
             THEN Raise("IndexError", "list index out of range")
             ELSE Ret("https://" \o pieces[2])

---------------------------------------------------------------------------
(* Inputs of the normalisers *)

\* The most chunks an input string is made of.
MaxChunks == 4

\* Every concatenation of at most n strings of C.
RECURSIVE Concats(_, _)
Concats(C, n) ==
    IF n = 0 THEN {""}
    ELSE LET shorter == Concats(C, n - 1)
         IN  shorter \cup {s \o c : s \in shorter, c \in C}

\* Pieces of redirect-wrapper URLs: the marker, the delimiters urlsplit
\* and get_abs_link cut at, an escaped marker ("%52" is "R"), an escaped
\* "/" and a twice-escaped "/" ("%25" is "%").
LinkChunks == {"RU=", "/", "?", "#", ":", "%52U=", "%2F", "%252F", "a"}

\* A redirect-wrapper URL as the search page serves it.
WrappedExample ==
    "https://r.search.yahoo.com/RV=2/RU=https%3A%2F%2Fexample.com%2Fabc/RK=2/RS=xyz-"

LinkInputs ==
    {None} \cup {Some(s) : s \in Concats(LinkChunks, MaxChunks)}
           \cup {Some(WrappedExample)}

\* Pieces of image-proxy URLs; "http" and "s://" join to a marker.
ImageChunks == {"https://", "http", "s://", "a/", "&"}

\* An image-proxy URL as the search page serves it.
ProxyExample ==
    "https://s.yimg.com/fz/api/res/1.2/abc/https://real.image/pic.jpg"

ImageInputs ==
    {None} \cup {Some(s) : s \in Concats(ImageChunks, MaxChunks)}
           \cup {Some(ProxyExample), Some("//s.yimg.com/fz&https://real.image/pic.jpg")}

---------------------------------------------------------------------------
(* Calls *)

Init ==
    /\ fn = "idle"
    /\ arg = None
    /\ out = None

\* The caller takes the outcome; nothing outlives the call.
Return ==
    /\ fn # "idle"
    /\ fn' = "idle"
    /\ arg' = None
    /\ out' = None

CallGetAbsLink ==
    /\ fn = "idle"
    /\ \E x \in LinkInputs :
          /\ fn' = "get_abs_link"
          /\ arg' = x
          /\ out' = get_abs_link(x)

CallGetAbsImage ==
    /\ fn = "idle"
    /\ \E x \in ImageInputs :
          /\ fn' = "get_abs_image"
          /\ arg' = x
          /\ out' = get_abs_image(x)

NextUrl == CallGetAbsLink \/ CallGetAbsImage \/ Return

SpecUrl == Init /\ [][NextUrl]_vars

---------------------------------------------------------------------------
(* The parsed document, as the selectors see it.  An element's attributes  *)
(* are a record: a key is absent, present without value (None) or present  *)
(* with a string (Some(s)).  node.text() results are given as strings.     *)

\* attributes[key]: KeyError when the element has no such attribute.
AttrIndex(attrs, key) ==
    IF key \in DOMAIN attrs THEN Ret(attrs[key]) ELSE Raise("KeyError", key)

\* attributes.get(key)
AttrGet(attrs, key) == IF key \in DOMAIN attrs THEN attrs[key] ELSE None

\* dict.update: the keys of `new` replace those of `d`.
Update(d, new) == new @@ d

\* pydantic's check of a `str` field of a dict.
HasStr(d, key) == key \in DOMAIN d /\ d[key] # None

\* pydantic's value of an Optional[str] field: None by default.
OptStr(d, key) == IF key \in DOMAIN d THEN d[key] ELSE None

ValidationError(model) == Raise("ValidationError", model)

\* response.raise_for_status()
HTTPStatusError == Raise("HTTPStatusError", "")

---------------------------------------------------------------------------
(* search *)

SearchLayoutMessage ==
    "Could not find '.reg.searchCCenterMiddle' (search results)"

\* The loop over the heading anchors of one result block: every anchor
\* overwrites title and link.
RECURSIVE search_titles(_, _)
search_titles(anchors, page_results) ==
    IF anchors = <<>> THEN Ret(page_results)
    ELSE LET title == Head(anchors)
             link == AttrIndex(title.attributes, "href")
             absLink == get_abs_link(link.value)
         IN  IF Raised(link) THEN link
             ELSE IF Raised(absLink) THEN absLink
             ELSE search_titles(Tail(anchors),
                     Update(page_results,
                            [title |-> IF title.last_child # None
                                       THEN title.last_child
                                       ELSE Some(""),
                             link |-> Some(absLink.value)]))

\* One result block: the anchors, then the snippet paragraphs (the last
\* one stays).
search_webpage(webpage) ==
    LET titled == search_titles(webpage.titles, <<>>)
    IN  IF Raised(titled) THEN titled
        ELSE IF webpage.texts = <<>> THEN titled
        ELSE Ret(Update(titled.value,
                        [text |-> Some(webpage.texts[Len(webpage.texts)])]))

RECURSIVE search_webpages(_)
search_webpages(webpages) ==
    IF webpages = <<>> THEN Ret(<<>>)
    ELSE LET first == search_webpage(Head(webpages))
             rest == search_webpages(Tail(webpages))
         IN  IF Raised(first) THEN first
             ELSE IF Raised(rest) THEN rest
             ELSE Ret(<<first.value>> \o rest.value)

\* contents["card"] before the panel is looked for.
EmptyCard == <<>>

\* The citation link of the card's paragraph.
search_card_source(inner_content, card) ==
    IF inner_content.source = None THEN Ret(card)
    ELSE LET source == inner_content.source[1]
             link == get_abs_link(AttrGet(source.attributes, "href"))
         IN  IF Raised(link) THEN link
             ELSE Ret(Update(card,
                      [source |-> [link |-> Some(link.value),
                                   text |-> Some(source.text)]]))

search_card_text(panel, card) ==
    IF panel.inner_content = None THEN Ret(card)
    ELSE LET inner_content == panel.inner_content[1]
         IN  search_card_source(inner_content,
                 Update(card,
                        [text |-> IF inner_content.first_child # None
                                  THEN inner_content.first_child
                                  ELSE Some("")]))

search_card_heading(panel, card) ==
    search_card_text(panel,
        IF panel.heading_2 = None THEN card
        ELSE Update(card, [heading |-> panel.heading_2]))

\* The info-card panel: contents["card"] stays the empty dict when the page
\* has no panel.
search_card(panel_or_none) ==
    IF panel_or_none = None THEN Ret(EmptyCard)
    ELSE LET panel == panel_or_none[1]
         IN  IF panel.image = None THEN search_card_heading(panel, EmptyCard)
             ELSE LET src == AttrIndex(panel.image[1].attributes, "src")
                      image == get_abs_image(src.value)
                  IN  IF Raised(src) THEN src
                      ELSE IF Raised(image) THEN image
                      ELSE search_card_heading(panel,
                               [image |-> Some(image.value)])

\* The also-try and the related-searches lists: link is the raw href.
RECURSIVE search_links(_)
search_links(items) ==
    IF items = <<>> THEN Ret(<<>>)
    ELSE LET item == Head(items)
             href == AttrIndex(item.attributes, "href")
             rest == search_links(Tail(items))
         IN  IF Raised(href) THEN href
             ELSE IF Raised(rest) THEN rest
             ELSE Ret(<<[link |-> href.value, text |-> Some(item.text)]>>
                          \o rest.value)

\* PageResult: title and link are required strings.
PageResultValid(d) == HasStr(d, "title") /\ HasStr(d, "link")

PageResult(d) ==
    [title |-> d.title[1], link |-> d.link[1], text |-> OptStr(d, "text")]

\* AlsoTryItem, RelatedSearch, CardResultSource: link and text are required
\* strings.
LinkTextValid(d) == HasStr(d, "link") /\ HasStr(d, "text")

LinkText(d) == [link |-> d.link[1], text |-> d.text[1]]

\* CardResult: every field is optional; a dict, the empty one too, is
\* validated into a CardResult.
CardResultValid(d) == "source" \in DOMAIN d => LinkTextValid(d.source)

CardResult(d) ==
    [image |-> OptStr(d, "image"),
     heading |-> OptStr(d, "heading"),
     text |-> OptStr(d, "text"),
     source |-> IF "source" \in DOMAIN d THEN Some(LinkText(d.source))
                ELSE None]

\* SearchResult(**contents); card is Optional[CardResult], None or a
\* CardResult.
SearchResult(contents) ==
    IF /\ \A i \in DOMAIN contents.pages : PageResultValid(contents.pages[i])
       /\ \A i \in DOMAIN contents.also_try :
             LinkTextValid(contents.also_try[i])
       /\ \A i \in DOMAIN contents.related_searches :
             LinkTextValid(contents.related_searches[i])
       /\ CardResultValid(contents.card)
    THEN Ret([also_try |-> [i \in DOMAIN contents.also_try |->
                               LinkText(contents.also_try[i])],
              pages |-> [i \in DOMAIN contents.pages |->
                            PageResult(contents.pages[i])],
              card |-> Some(CardResult(contents.card)),
              related_searches |->
                  [i \in DOMAIN contents.related_searches |->
                      LinkText(contents.related_searches[i])]])
    ELSE ValidationError("SearchResult")

search(res) ==
    IF res.is_error THEN HTTPStatusError
    ELSE IF ~res.page.search
    THEN Raise("AssertionError", SearchLayoutMessage)
    ELSE LET pages == search_webpages(res.page.webpages)
             card == search_card(res.page.card)
             also_try == search_links(res.page.also_try)
             related_searches == search_links(res.page.related_searches)
         IN  IF Raised(pages) THEN pages
             ELSE IF Raised(card) THEN card
             ELSE IF Raised(also_try) THEN also_try
             ELSE IF Raised(related_searches) THEN related_searches
             ELSE SearchResult([also_try |-> also_try.value,
                                pages |-> pages.value,
                                card |-> card.value,
                                related_searches |-> related_searches.value])

---------------------------------------------------------------------------
(* Search pages *)

\* The most result blocks of a search page.
MaxResults == 2

\* Every sequence of at most n elements of S.
SeqsUpTo(S, n) == UNION {[1..k -> S] : k \in 0..n}

\* hrefs of heading anchors: empty, a direct link, redirect wrappers (whose
\* destination is plain, holds an escaped "RU=", holds a twice-escaped
\* space, is followed by a second marker) and a wrapper that carries the
\* marker in its query.
HrefSamples ==
    {"",
     "https://example.com/page",
     WrappedExample,
     "https://r.search.yahoo.com/RU=https%3A%2F%2Fa.com%2F%3FRU%3Dx/RK=2",
     "https://r.search.yahoo.com/RU=https%3A%2F%2Fa.com%2Fq%2520r/RK=2",
     "https://r.search.yahoo.com/RU=https%3A%2F%2Fa.comRU=x/RK=2",
     "https://r.search.yahoo.com/cbclk?RU=https%3A%2F%2Fa.com/"}

HrefAttributes ==
    {<<>>, [href |-> None]} \cup {[href |-> Some(s)] : s \in HrefSamples}

GoodTitle ==
    [attributes |-> [href |-> Some(WrappedExample)],
     last_child |-> Some("Example Domain")]

TitleAnchors ==
    {[attributes |-> a, last_child |-> Some("A title")] : a \in HrefAttributes}
        \cup {GoodTitle, [GoodTitle EXCEPT !.last_child = None]}

PlainTitle ==
    [attributes |-> [href |-> Some("https://example.com/page")],
     last_child |-> Some("A direct link")]

\* A block has no heading anchor, one, or two of them.
TitleLists ==
    {<<>>} \cup {<<a>> : a \in TitleAnchors}
           \cup {<<GoodTitle, PlainTitle>>, <<PlainTitle, GoodTitle>>}

GoodWebpage == [titles |-> <<GoodTitle>>, texts |-> <<"A snippet">>]

\* A block has one snippet paragraph; the well-formed block also comes
\* with none and with two.
Webpages ==
    {[titles |-> l, texts |-> <<"A snippet">>] : l \in TitleLists}
        \cup {[GoodWebpage EXCEPT !.texts = <<>>],
              [GoodWebpage EXCEPT !.texts = <<"first", "second snippet">>]}

CardImages ==
    {None, Some([attributes |-> <<>>]), Some([attributes |-> [src |-> None]])}
        \cup {Some([attributes |-> [src |-> Some(s)]]) :
                 s \in {"//s.yimg.com/fz/pic.jpg", ProxyExample}}

CardSources ==
    {None} \cup {Some([attributes |-> a, text |-> "Wikipedia"]) :
                    a \in {<<>>, [href |-> Some(WrappedExample)]}}

CardParagraphs ==
    {None} \cup {Some(p) : p \in [first_child : {None, Some("A summary.")},
                                  source : CardSources]}

Cards ==
    {None} \cup {Some(c) : c \in [image : CardImages,
                                  heading_2 : {None, Some("A heading")},
                                  inner_content : CardParagraphs]}

LinkItems ==
    {[attributes |-> a, text |-> "chocolate cake"] :
        a \in {<<>>, [href |-> None],
               [href |-> Some("https://sg.search.yahoo.com/search?p=cake")]}}

LinkLists == {<<>>} \cup {<<i>> : i \in LinkItems}

GoodLinkItem ==
    [attributes |-> [href |-> Some("https://sg.search.yahoo.com/search?p=cake")],
     text |-> "chocolate cake"]

FullCard ==
    [image |-> Some([attributes |-> [src |-> Some(ProxyExample)]]),
     heading_2 |-> Some("A heading"),
     inner_content |->
         Some([first_child |-> Some("A summary."),
               source |-> Some([attributes |-> [href |-> Some(WrappedExample)],
                                text |-> "Wikipedia"])])]

\* Pages with the results container: the result blocks vary and the side
\* panels are absent; or one block is fixed and the three side panels
\* vary, each present or absent whatever the other two are.
SearchPages ==
    {[search |-> TRUE, webpages |-> w, card |-> None,
      also_try |-> <<>>, related_searches |-> <<>>] :
        w \in SeqsUpTo(Webpages, MaxResults)}
    \cup
    {[search |-> TRUE, webpages |-> <<GoodWebpage>>, card |-> c,
      also_try |-> a, related_searches |-> r] :
        c \in Cards, a \in {<<>>, <<GoodLinkItem>>},
        r \in {<<>>, <<GoodLinkItem>>}}
    \cup
    {[search |-> TRUE, webpages |-> <<GoodWebpage>>, card |-> c,
      also_try |-> a, related_searches |-> r] :
        c \in {None, Some(FullCard)}, a \in LinkLists, r \in LinkLists}

\* A page without the results container (a block page, a changed layout).
SearchNoContainer ==
    [search |-> FALSE, webpages |-> <<>>, card |-> None,
     also_try |-> <<>>, related_searches |-> <<>>]

SearchResponses ==
    {[is_error |-> FALSE, page |-> p] :
        p \in SearchPages \cup {SearchNoContainer}}
    \cup {[is_error |-> TRUE, page |-> SearchNoContainer]}

CallSearch ==
    /\ fn = "idle"
    /\ \E res \in SearchResponses :
          /\ fn' = "search"
          /\ arg' = res
          /\ out' = search(res)

---------------------------------------------------------------------------
(* search_news *)

NewsLayoutMessage == "Could not find '#main #web' (news results)"

\* text[n:] of Python, for n = 2.
DropTwo(text) == SubSeq(text, 3, Len(text))

StartsWith(s, prefix) == StartsWithAt(s, prefix, 1)

\* The thumbnail probe: src is indexed, then tested for a data URI.
news_thumbnail(news, this) ==
    IF news.thumbnail = None THEN Ret(this)
    ELSE LET src == AttrIndex(news.thumbnail[1].attributes, "src")
         IN  IF Raised(src) THEN src
             ELSE IF src.value = None
             THEN Raise("AttributeError", "startswith")
             ELSE Ret(Update(this,
                      [thumbnail |-> IF StartsWith(src.value[1], "data:image/")
                                     THEN None ELSE src.value]))

\* The heading anchor probe: title and link.
news_title(news, this) ==
    IF news.title = None THEN Ret(this)
    ELSE LET href == AttrIndex(news.title[1].attributes, "href")
         IN  IF Raised(href) THEN href
             ELSE Ret(Update(this, [title |-> Some(news.title[1].text),
                                    link |-> href.value]))

\* The source, time and description probes; none can raise.
news_labels(news, this) ==
    LET sourced == IF news.source = None THEN this
                   ELSE Update(this, [source |-> news.source])
        timed == IF news.last_updated = None THEN sourced
                 ELSE Update(sourced,
                             [time |-> Some(DropTwo(news.last_updated[1]))])
    IN  IF news.description = None THEN timed
        ELSE Update(timed, [text |-> news.description])

news_item(news) ==
    LET thumbed == news_thumbnail(news, <<>>)
        titled == news_title(news, thumbed.value)
    IN  IF Raised(thumbed) THEN thumbed
        ELSE IF Raised(titled) THEN titled
        ELSE Ret(news_labels(news, titled.value))

RECURSIVE news_items(_)
news_items(items) ==
    IF items = <<>> THEN Ret(<<>>)
    ELSE LET first == news_item(Head(items))
             rest == news_items(Tail(items))
         IN  IF Raised(first) THEN first
             ELSE IF Raised(rest) THEN rest
             ELSE Ret(<<first.value>> \o rest.value)

\* News: title is a required string; the keys the class does not declare
\* ("link", "time") are dropped, the fields it declares default to None.
NewsValid(d) == HasStr(d, "title")

News(d) ==
    [title |-> d.title[1],
     thumbnail |-> OptStr(d, "thumbnail"),
     source |-> OptStr(d, "source"),
     last_updated |-> OptStr(d, "last_updated"),
     text |-> OptStr(d, "text")]

NewsSearchResult(contents) ==
    IF \A i \in DOMAIN contents : NewsValid(contents[i])
    THEN Ret([news |-> [i \in DOMAIN contents |-> News(contents[i])]])
    ELSE ValidationError("NewsSearchResult")

\* search_news does not look at the response's status.
search_news(res) ==
    IF ~res.page.web THEN Raise("AssertionError", NewsLayoutMessage)
    ELSE LET contents == news_items(res.page.news)
         IN  IF Raised(contents) THEN contents
             ELSE NewsSearchResult(contents.value)

---------------------------------------------------------------------------
(* search_videos *)

EmptyResultMessage == "Couldn't find any results for '#search li.vr.vres'"

VideoOrigin == "https://sg.video.search.yahoo.com"

\* JSON values: null, a string, an object (a record of members).
JNull == [type |-> "null"]

JString(s) == [type |-> "string", string |-> s]

JObject(members) == [type |-> "object", members |-> members]

PreviewUrl == "https://v.yimg.com/preview.mp4"

\* The `data` attributes the video anchors carry.
DataWithPreview == "{\"m\": {\"u\": \"https://v.yimg.com/preview.mp4\"}}"

DataNullM == "{\"m\": null}"

DataEmptyM == "{\"m\": {}}"

DataNoM == "{}"

DataNotJson == "undefined"

\* json.loads on those documents.
json_loads(text) ==
    CASE text = DataWithPreview ->
             Ret(JObject([m |-> JObject([u |-> JString(PreviewUrl)])]))
      [] text = DataNullM -> Ret(JObject([m |-> JNull]))
      [] text = DataEmptyM -> Ret(JObject([m |-> JObject(<<>>)]))
      [] text = DataNoM -> Ret(JObject(<<>>))
      [] OTHER -> Raise("JSONDecodeError", text)

\* Python's truth value of a JSON value.
Truthy(j) ==
    CASE j.type = "null" -> FALSE
      [] j.type = "string" -> j.string # ""
      [] j.type = "object" -> DOMAIN j.members # {}

\* dict[key]
JIndex(j, key) ==
    IF key \in DOMAIN j.members THEN Ret(j.members[key])
    ELSE Raise("KeyError", key)

\* The preview probe: meta['m'] is indexed, then tested, then
\* meta['m']['u'] is indexed.
video_preview(anchor, this) ==
    LET preview == AttrGet(anchor.attributes, "data")
    IN  IF preview = None \/ preview = Some("") THEN Ret(this)
        ELSE LET meta == json_loads(preview[1])
                 m == JIndex(meta.value, "m")
                 u == JIndex(m.value, "u")
             IN  IF Raised(meta) THEN meta
                 ELSE IF Raised(m) THEN m
                 ELSE IF ~Truthy(m.value) THEN Ret(this)
                 ELSE IF Raised(u) THEN u
                 ELSE Ret(Update(this,
                          [video_preview |->
                              IF u.value.type = "string"
                              THEN Some(u.value.string) ELSE None]))

\* The anchor probe: the link, then the preview.
video_anchor(result, this) ==
    IF result.anchor = None THEN Ret(this)
    ELSE LET anchor == result.anchor[1]
             href == AttrIndex(anchor.attributes, "href")
         IN  IF Raised(href) THEN href
             ELSE IF href.value = None THEN Raise("TypeError", "str + None")
             ELSE video_preview(anchor,
                      Update(this,
                             [link |-> Some(VideoOrigin \o href.value[1])]))

video_thumbnail(result, this) ==
    IF result.thumbnail = None THEN Ret(this)
    ELSE LET src == AttrIndex(result.thumbnail[1].attributes, "src")
         IN  IF Raised(src) THEN src
             ELSE Ret(Update(this, [thumbnail |-> src.value]))

\* The duration and the metadata block; none can raise.
video_labels(result, this) ==
    LET timed == IF result.duration = None THEN this
                 ELSE Update(this, [duration |-> result.duration])
    IN  IF result.metadata = None THEN timed
        ELSE LET metadata == result.metadata[1]
                 titled == IF metadata.first_child = None THEN timed
                           ELSE Update(timed, [title |-> metadata.first_child])
                 aged == IF metadata.age = None THEN titled
                         ELSE Update(titled, [age |-> metadata.age])
             IN  IF metadata.last_child = None THEN aged
                 ELSE Update(aged, [cite |-> metadata.last_child])

video_item(result) ==
    LET anchored == video_anchor(result, <<>>)
        thumbed == video_thumbnail(result, anchored.value)
    IN  IF Raised(anchored) THEN anchored
        ELSE IF Raised(thumbed) THEN thumbed
        ELSE Ret(video_labels(result, thumbed.value))

RECURSIVE video_items(_)
video_items(results) ==
    IF results = <<>> THEN Ret(<<>>)
    ELSE LET first == video_item(Head(results))
             rest == video_items(Tail(results))
         IN  IF Raised(first) THEN first
             ELSE IF Raised(rest) THEN rest
             ELSE Ret(<<first.value>> \o rest.value)

\* Video: title and link are required strings; "duration" is not a field.
VideoValid(d) == HasStr(d, "title") /\ HasStr(d, "link")

Video(d) ==
    [age |-> OptStr(d, "age"),
     cite |-> OptStr(d, "cite"),
     thumbnail |-> OptStr(d, "thumbnail"),
     video_preview |-> OptStr(d, "video_preview"),
     title |-> d.title[1],
     link |-> d.link[1]]

VideoSearchResult(contents) ==
    IF \A i \in DOMAIN contents : VideoValid(contents[i])
    THEN Ret([videos |-> [i \in DOMAIN contents |-> Video(contents[i])]])
    ELSE ValidationError("VideoSearchResult")

\* video_assert without the assertion.
video_assert_dropped(results) == Ret(results)

\* assert results: an empty list of items fails the assertion.
video_assert(results) ==
    IF results = <<>> THEN Raise("AssertionError", EmptyResultMessage)
    ELSE Ret(results)

search_videos(res) ==
    IF res.is_error THEN HTTPStatusError
    ELSE LET results == video_assert(res.page.results)
             contents == video_items(results.value)
         IN  IF Raised(results) THEN results
             ELSE IF Raised(contents) THEN contents
             ELSE VideoSearchResult(contents.value)

---------------------------------------------------------------------------
(* weather *)

\* weather_table[:7]
ForecastRows == 7

Weekdays ==
    {"Monday", "Tuesday", "Wednesday", "Thursday", "Friday", "Saturday",
     "Sunday"}

Digits == "0123456789"

RECURSIVE DigitsValue(_)
DigitsValue(s) ==
    IF s = "" THEN 0
    ELSE 10 * DigitsValue(SubSeq(s, 1, Len(s) - 1))
             + Find(Digits, CharAt(s, Len(s)), 1) - 1

\* int(text), for texts without whitespace, sign or underscores: a
\* non-empty run of digits, and ValueError for anything else.
int(text) ==
    IF text # "" /\ AllIn(text, Digits) THEN Ret(DigitsValue(text))
    ELSE Raise("ValueError", text)

\* text[:-1]
DropLast(text) == IF text = "" THEN "" ELSE SubSeq(text, 1, Len(text) - 1)

Min(a, b) == IF a <= b THEN a ELSE b

\* forecast_rows without the cut at seven rows.
forecast_rows_uncut(weather_table) == weather_table

\* The rows the loop visits.
forecast_rows(weather_table) ==
    SubSeq(weather_table, 1, Min(Len(weather_table), ForecastRows))

\* The four <dd> of a row, by position: fahrenheit high, celsius high,
\* fahrenheit low, and every later one celsius low.
RECURSIVE weather_temperatures(_, _, _)
weather_temperatures(hl_temp, index, info) ==
    IF index >= Len(hl_temp) THEN Ret(info)
    ELSE LET value == int(DropLast(hl_temp[index + 1]))
             scale == IF index = 0 \/ index = 2 THEN "fahrenheit"
                      ELSE "celsius"
             bound == IF index = 0 \/ index = 1 THEN "highest"
                      ELSE "lowest"
         IN  IF Raised(value) THEN value
             ELSE weather_temperatures(hl_temp, index + 1,
                      [info EXCEPT ![scale] =
                          Update(@, bound :> value.value)])

\* The precipitation cell: its first child's src, then the text of its
\* last child's last child (None when that child has no children).
weather_precipitation(row, info) ==
    IF row.precipitation = None THEN Ret(info)
    ELSE LET cell == row.precipitation[1]
             src == AttrIndex(cell.img.attributes, "src")
         IN  IF Raised(src) THEN src
             ELSE IF cell.percentage = None
             THEN Raise("AttributeError", "text")
             ELSE Ret(Update(info,
                      [precipitation |-> [icon |-> src.value,
                                          percentage |-> cell.percentage]]))

\* The weather image of a row: alt, then src.
weather_image(row, info) ==
    IF row.weather = None THEN Ret(info)
    ELSE LET alt == AttrIndex(row.weather[1].attributes, "alt")
             src == AttrIndex(row.weather[1].attributes, "src")
         IN  IF Raised(alt) THEN alt
             ELSE IF Raised(src) THEN src
             ELSE Ret(Update(info,
                      [weather |-> [text |-> alt.value, icon |-> src.value]]))

\* One row: the day label, then the dict of the day.
weather_row(row) ==
    LET imaged == weather_image(row, [fahrenheit |-> <<>>, celsius |-> <<>>])
        rained == weather_precipitation(row, imaged.value)
    IN  IF row.day = None THEN Raise("AttributeError", "last_child")
        ELSE IF Raised(imaged) THEN imaged
        ELSE IF Raised(rained) THEN rained
        ELSE weather_temperatures(row.hl_temp, 0, rained.value)

\* The loop over the rows, from row i on: data["forecast"][day] = info, a
\* later row of the same day label replacing the earlier.
RECURSIVE weather_forecast(_, _, _)
weather_forecast(rows, i, forecast) ==
    IF i > Len(rows) THEN Ret(forecast)
    ELSE LET info == weather_row(rows[i])
         IN  IF Raised(info) THEN info
             ELSE weather_forecast(rows, i + 1,
                      Update(forecast, rows[i].day[1] :> info.value))

\* The heading module: icon and text, and only then the forecast table.
weather_module(page, data) ==
    IF page.weather = None THEN Ret(data)
    ELSE LET module == page.weather[1]
             src == AttrIndex(module.img[1].attributes, "src")
             iconed == IF module.img = None THEN data
                       ELSE Update(data, [weather_icon |-> src.value])
             texted == IF module.text = None THEN iconed
                       ELSE Update(iconed, [weather |-> module.text])
             forecast == weather_forecast(forecast_rows(page.weather_table),
                                          1, <<>>)
         IN  IF module.img # None /\ Raised(src) THEN src
             ELSE IF Raised(forecast) THEN forecast
             ELSE Ret(Update(texted, [forecast |-> forecast.value]))

\* The labels above the module; int() of the two temperatures can raise.
weather_heading(page) ==
    LET located == IF page.location = None THEN [forecast |-> <<>>]
                   ELSE Update([forecast |-> <<>>],
                               [location |-> page.location])
        landed == IF page.country = None THEN located
                  ELSE Update(located, [country |-> page.country])
        timed == IF page.now = None THEN landed
                 ELSE Update(landed, [time |-> page.now])
        celsius == int(page.celsius[1])
        fahrenheit == int(page.fahrenheit[1])
        withC == IF page.celsius = None THEN timed
                 ELSE Update(timed, [celsius |-> celsius.value])
    IN  IF page.celsius # None /\ Raised(celsius) THEN celsius
        ELSE IF page.fahrenheit # None /\ Raised(fahrenheit) THEN fahrenheit
        ELSE IF page.fahrenheit = None THEN Ret(withC)
        ELSE Ret(Update(withC, [fahrenheit |-> fahrenheit.value]))

\* HighLowTemperature: highest and lowest are required.
HighLowValid(d) == {"highest", "lowest"} \subseteq DOMAIN d

\* WeatherForecast: the four parts are required, with required strings.
WeatherForecastValid(d) ==
    /\ {"fahrenheit", "celsius", "weather", "precipitation"} \subseteq DOMAIN d
    /\ HighLowValid(d.fahrenheit)
    /\ HighLowValid(d.celsius)
    /\ d.weather.text # None /\ d.weather.icon # None
    /\ d.precipitation.icon # None /\ d.precipitation.percentage # None

WeatherForecast(d) ==
    [fahrenheit |-> d.fahrenheit,
     celsius |-> d.celsius,
     weather |-> [text |-> d.weather.text[1], icon |-> d.weather.icon[1]],
     precipitation |-> [icon |-> d.precipitation.icon[1],
                        percentage |-> d.precipitation.percentage[1]]]

\* WeatherInformation(**data): every field is required; the keys of
\* forecast are weekday names.
WeatherInformation(data) ==
    IF /\ \A key \in {"location", "country", "time", "weather",
                      "weather_icon"} : HasStr(data, key)
       /\ {"celsius", "fahrenheit"} \subseteq DOMAIN data
       /\ DOMAIN data.forecast \subseteq Weekdays
       /\ \A day \in DOMAIN data.forecast :
             WeatherForecastValid(data.forecast[day])
    THEN Ret([location |-> data.location[1],
              country |-> data.country[1],
              time |-> data.time[1],
              celsius |-> data.celsius,
              fahrenheit |-> data.fahrenheit,
              weather |-> data.weather[1],
              weather_icon |-> data.weather_icon[1],
              forecast |-> [day \in DOMAIN data.forecast |->
                               WeatherForecast(data.forecast[day])]])
    ELSE ValidationError("WeatherInformation")

\* weather does not look at the response's status.
weather(res) ==
    LET heading == weather_heading(res.page)
        data == weather_module(res.page, heading.value)
    IN  IF Raised(heading) THEN heading
        ELSE IF Raised(data) THEN data
        ELSE WeatherInformation(data.value)

---------------------------------------------------------------------------
(* autocomplete *)

\* autocomplete returning the last element of the array, not the second.
autocomplete_last(res) ==
    CASE res.body.type = "invalid" -> Raise("JSONDecodeError", "")
      [] res.body.type = "object" -> Raise("KeyError", "1")
      [] res.body.type = "array" ->
             IF Len(res.body.items) < 2
             THEN Raise("IndexError", "list index out of range")
             ELSE Ret(res.body.items[Len(res.body.items)])

\* res.json()[1]: the body parsed, then its element of index 1.  A body
\* that is no JSON, a JSON object and an array of fewer than two elements
\* raise.  autocomplete does not look at the response's status.
autocomplete(res) ==
    CASE res.body.type = "invalid" -> Raise("JSONDecodeError", "")
      [] res.body.type = "object" -> Raise("KeyError", "1")
      [] res.body.type = "array" ->
             IF Len(res.body.items) < 2
             THEN Raise("IndexError", "list index out of range")
             ELSE Ret(res.body.items[2])

---------------------------------------------------------------------------
(* News pages *)

\* The most list items of a news page.
MaxNews == 2

FullNews ==
    [thumbnail |-> Some([attributes |->
                            [src |-> Some("https://s.yimg.com/n.jpg")]]),
     title |-> Some([text |-> "A headline",
                     attributes |-> [href |-> Some("https://news.example/a")]]),
     source |-> Some("Reuters"),
     last_updated |-> Some(". 2 hours ago"),
     description |-> Some("What happened.")]

BareNews ==
    [thumbnail |-> None, title |-> None, source |-> None,
     last_updated |-> None, description |-> None]

\* The full item, the item no probe matches, and items that differ from
\* the full one in one probe.
NewsItems ==
    {FullNews, BareNews,
     [BareNews EXCEPT !.source = Some("Reuters")],
     [FullNews EXCEPT !.thumbnail = None],
     [FullNews EXCEPT !.thumbnail = Some([attributes |-> <<>>])],
     [FullNews EXCEPT !.thumbnail = Some([attributes |-> [src |-> None]])],
     [FullNews EXCEPT !.thumbnail =
         Some([attributes |-> [src |-> Some("data:image/gif;base64,R0")]])],
     [FullNews EXCEPT !.title = None],
     [FullNews EXCEPT !.title =
         Some([text |-> "A headline", attributes |-> <<>>])],
     [FullNews EXCEPT !.source = None],
     [FullNews EXCEPT !.last_updated = None],
     [FullNews EXCEPT !.description = None]}

NewsResponses ==
    {[is_error |-> FALSE, page |-> [web |-> TRUE, news |-> n]] :
        n \in SeqsUpTo(NewsItems, MaxNews)}
    \cup {[is_error |-> e, page |-> [web |-> FALSE, news |-> <<>>]] :
             e \in BOOLEAN}
    \cup {[is_error |-> TRUE, page |-> [web |-> TRUE, news |-> <<FullNews>>]]}

---------------------------------------------------------------------------
(* Video pages *)

\* The most items of a video page.
MaxVideos == 2

VideoAnchor(data) ==
    Some([attributes |-> [href |-> Some("/video/play?p=a"), data |-> data]])

FullVideo ==
    [anchor |-> VideoAnchor(Some(DataWithPreview)),
     thumbnail |-> Some([attributes |->
                            [src |-> Some("https://tse.mm.bing.net/th")]]),
     duration |-> Some("3:21"),
     metadata |-> Some([first_child |-> Some("A video"),
                        age |-> Some("2 years ago"),
                        last_child |-> Some("youtube.com")])]

\* The full item and items that differ from it in one probe.
VideoItems ==
    {[FullVideo EXCEPT !.anchor = VideoAnchor(d)] :
        d \in {None, Some("")} \cup
              {Some(s) : s \in {DataWithPreview, DataNullM, DataEmptyM,
                                DataNoM, DataNotJson}}}
    \cup
    {[FullVideo EXCEPT !.anchor = None],
     [FullVideo EXCEPT !.anchor =
         Some([attributes |-> [href |-> Some("/video/play?p=a")]])],
     [FullVideo EXCEPT !.anchor = Some([attributes |-> <<>>])],
     [FullVideo EXCEPT !.anchor = Some([attributes |-> [href |-> None]])],
     [FullVideo EXCEPT !.thumbnail = None],
     [FullVideo EXCEPT !.thumbnail = Some([attributes |-> <<>>])],
     [FullVideo EXCEPT !.duration = None],
     [FullVideo EXCEPT !.metadata = None],
     [FullVideo EXCEPT !.metadata =
         Some([first_child |-> None, age |-> None, last_child |-> None])],
     [FullVideo EXCEPT !.metadata =
         Some([first_child |-> Some("A video"), age |-> None,
               last_child |-> Some("A video")])]}

VideoResponses ==
    {[is_error |-> FALSE, page |-> [results |-> r]] :
        r \in SeqsUpTo(VideoItems, MaxVideos)}
    \cup {[is_error |-> TRUE, page |-> [results |-> <<>>]]}

---------------------------------------------------------------------------
(* Weather pages *)

\* The most rows of the forecast table.
MaxRows == 8

WeekdayNames ==
    <<"Monday", "Tuesday", "Wednesday", "Thursday", "Friday", "Saturday",
      "Sunday">>

\* The day label of the row at position i of a table that starts on the
\* weekday after WeekdayNames[start].
DayAt(start, i) == WeekdayNames[((start + i - 1) % 7) + 1]

SkyTexts == <<"Sunny", "Cloudy", "Showers">>

\* The well-formed row at position i: the sky text varies with the
\* position.
FullRow(day, i) ==
    [day |-> Some(day),
     weather |-> Some([attributes |->
                          [alt |-> Some(SkyTexts[(i % 3) + 1]),
                           src |-> Some("https://s.yimg.com/sky.png")]]),
     precipitation |-> Some([img |-> [attributes |->
                                 [src |-> Some("https://s.yimg.com/rain.png")]],
                             percentage |-> Some("40%")]),
     hl_temp |-> <<"88°", "31°", "77°", "25°">>]

\* Rows that differ from the well-formed one: another day label, a label
\* that is no weekday, no label, a missing part, malformed temperatures.
RowVariants(day, i) ==
    {[FullRow(day, i) EXCEPT !.day = Some(d)] : d \in Weekdays \cup {"Today"}}
    \cup
    {[FullRow(day, i) EXCEPT !.day = None],
     [FullRow(day, i) EXCEPT !.weather = None],
     [FullRow(day, i) EXCEPT !.weather =
         Some([attributes |-> [alt |-> Some("Sunny")]])],
     [FullRow(day, i) EXCEPT !.precipitation = None],
     [FullRow(day, i) EXCEPT !.precipitation[1].percentage = None],
     [FullRow(day, i) EXCEPT !.hl_temp = <<"88°", "31°", "77°">>],
     [FullRow(day, i) EXCEPT !.hl_temp = <<"88°", "31°", "77°", "25°", "20°">>],
     [FullRow(day, i) EXCEPT !.hl_temp = <<"88°", "--", "77°", "25°">>]}

\* Tables of n rows of consecutive days, from Tuesday or from Saturday on,
\* and those with one row replaced by a variant.
WeatherTables ==
    UNION {LET table == [i \in 1..n |-> FullRow(DayAt(start, i), i)]
           IN  {table} \cup
               UNION {{[table EXCEPT ![k] = row] :
                          row \in RowVariants(DayAt(start, k), k)} :
                      k \in 1..n} :
           start \in {0, 4}, n \in 0..MaxRows}

FullHeading ==
    [location |-> Some("Singapore"),
     country |-> Some("Singapore"),
     now |-> Some("Mon, 2 Oct, 10:00 am"),
     celsius |-> Some("31"),
     fahrenheit |-> Some("88"),
     weather |-> Some([img |-> Some([attributes |->
                                  [src |-> Some("https://s.yimg.com/now.png")]]),
                       text |-> Some("Mostly Sunny")])]

WeekTable == [i \in 1..7 |-> FullRow(DayAt(0, i), i)]

\* Headings that differ from the well-formed one in one probe.
WeatherHeadings ==
    {[FullHeading EXCEPT !.location = None],
     [FullHeading EXCEPT !.country = None],
     [FullHeading EXCEPT !.now = None],
     [FullHeading EXCEPT !.celsius = None],
     [FullHeading EXCEPT !.celsius = Some("31°")],
     [FullHeading EXCEPT !.fahrenheit = None],
     [FullHeading EXCEPT !.fahrenheit = Some("")],
     [FullHeading EXCEPT !.weather = None],
     [FullHeading EXCEPT !.weather[1].img = None],
     [FullHeading EXCEPT !.weather[1].img = Some([attributes |-> <<>>])],
     [FullHeading EXCEPT !.weather[1].text = None]}

WeatherPage(heading, table) == [weather_table |-> table] @@ heading

WeatherResponses ==
    {[is_error |-> FALSE, page |-> WeatherPage(FullHeading, table)] :
        table \in WeatherTables}
    \cup {[is_error |-> e, page |-> WeatherPage(h, WeekTable)] :
             e \in BOOLEAN, h \in WeatherHeadings}

---------------------------------------------------------------------------
(* Autocomplete responses *)

\* The most suggestions of a response.
MaxSuggestions == 3

\* Suggestions as the endpoint may send them: not sorted, with a capital,
\* with a trailing space.
Suggestions == {"cake", "Cake ", "apple pie"}

SuggestionLists == SeqsUpTo(Suggestions, MaxSuggestions)

JArray(items) == [type |-> "array", items |-> items]

\* Arrays of the query and the suggestions, with or without a third
\* element; an array of the query alone; a JSON object; a body that is no
\* JSON.
AutocompleteBodies ==
    {JArray(<<"cake", s>>) : s \in SuggestionLists}
    \cup {JArray(<<"cake", s, <<>>>>) : s \in SuggestionLists}
    \cup {JArray(<<"cake">>), JArray(<<>>),
          [type |-> "object"], [type |-> "invalid"]}

AutocompleteResponses ==
    {[is_error |-> FALSE, body |-> b] : b \in AutocompleteBodies}
    \cup {[is_error |-> TRUE, body |-> b] :
             b \in {[type |-> "invalid"], JArray(<<"cake", <<"cake">>>>)}}

---------------------------------------------------------------------------
(* Calls of the extractors *)

CallSearchNews ==
    /\ fn = "idle"
    /\ \E res \in NewsResponses :
          /\ fn' = "search_news"
          /\ arg' = res
          /\ out' = search_news(res)

CallSearchVideos ==
    /\ fn = "idle"
    /\ \E res \in VideoResponses :
          /\ fn' = "search_videos"
          /\ arg' = res
          /\ out' = search_videos(res)

CallWeather ==
    /\ fn = "idle"
    /\ \E res \in WeatherResponses :
          /\ fn' = "weather"
          /\ arg' = res
          /\ out' = weather(res)

CallAutocomplete ==
    /\ fn = "idle"
    /\ \E res \in AutocompleteResponses :
          /\ fn' = "autocomplete"
          /\ arg' = res
          /\ out' = autocomplete(res)

Next ==
    \/ CallSearch
    \/ CallSearchNews
    \/ CallSearchVideos
    \/ CallWeather
    \/ CallAutocomplete
    \/ Return

Spec == Init /\ [][Next]_vars

---------------------------------------------------------------------------
(* Properties *)

\* The positions at which a destination may end: the end of the URL, or
\* the place before a "/", a "?", a "#" or another "RU=".
SegmentEnds(h) ==
    {q \in 0..Len(h) : \/ q = Len(h)
                       \/ CharAt(h, q + 1) \in {"/", "?", "#"}
                       \/ StartsWithAt(h, "RU=", q + 1)}

\* link is the one-pass decoding of a piece of h that follows a "RU=",
\* holds neither "/" nor "RU=" and runs to a delimiter, to another "RU="
\* or to the end.
DecodesMarkedPiece(h, link) ==
    \E p \in {i \in 1..Len(h) : StartsWithAt(h, "RU=", i)} :
       \E q \in {e \in SegmentEnds(h) : e >= p + 2} :
          LET piece == SubSeq(h, p + 3, q)
          IN  /\ ~Contains(piece, "/")
              /\ ~Contains(piece, "RU=")
              /\ link = unquote(piece)

\* The href of the heading anchor that decides a block's link: the last.
LastHref(webpage) == webpage.titles[Len(webpage.titles)].attributes.href

C2_NeverRaises ==
    fn = "get_abs_link" =>
        /\ Returned(out)
        /\ (arg = None \/ arg = Some("")
                \/ ~Contains(urlsplit_path(arg[1]), "RU="))
               => out.value = ""

\* C3 as stated: the wrapper of https%3A%2F%2Fexample.com%2Fabc resolves to
\* "https://example.com".
C3_ExampleCutAtEscapedSlash ==
    (fn = "get_abs_link" /\ arg = Some(WrappedExample)) =>
        out = Ret("https://example.com")

\* C3 amended: the wrapper of https%3A%2F%2Fexample.com%2Fabc resolves to
\* "https://example.com/abc"; for every non-empty input on which
\* get_abs_link returns, the destination is cut at the first "/" (or next
\* "RU=") that is in the URL as such, before decoding, so an escaped "/"
\* stays in it.
C3_DecodedAfterCut ==
    fn = "get_abs_link" =>
        /\ arg = Some(WrappedExample) => out = Ret("https://example.com/abc")
        /\ (Returned(out) /\ arg # None /\ arg # Some(""))
               => DecodesMarkedPiece(arg[1], out.value)

\* C3's case: the example wrapper resolved.
C3_Witness ==
    /\ fn = "get_abs_link"
    /\ arg = Some(WrappedExample)
    /\ Returned(out)
    /\ Contains(out.value, "/abc")

\* C4 as stated: get_abs_image returns the input from its first "https://"
\* to its end, and "" for None, "" and inputs without "https://".
C4_SuffixFromFirstMarker ==
    fn = "get_abs_image" =>
        IF arg # None /\ Contains(arg[1], "https://")
        THEN out = Ret(SubSeq(arg[1], Find(arg[1], "https://", 1),
                              Len(arg[1])))
        ELSE out = Ret("")

\* C5 as stated: the record search returns has card None exactly when the
\* page has no info-card panel, whatever the other two side panels.
C5_CardAbsentWithoutPanel ==
    (fn = "search" /\ Returned(out)) =>
        (out.value.card = None <=> arg.page.card = None)

\* Every thumbnail of the items has a src string and every heading anchor
\* an href.
NewsWellFormed(items) ==
    \A i \in DOMAIN items :
        /\ items[i].thumbnail # None =>
               AttrGet(items[i].thumbnail[1].attributes, "src") # None
        /\ items[i].title # None =>
               "href" \in DOMAIN items[i].title[1].attributes

\* C6 as stated: on every news page with the results list search_news
\* succeeds and returns one entry per list item, an item no probe matches
\* included.
C6_OneEntryPerItem ==
    (fn = "search_news" /\ arg.page.web /\ NewsWellFormed(arg.page.news)) =>
        /\ Returned(out)
        /\ Len(out.value.news) = Len(arg.page.news)

SearchNoContainerResponse == [is_error |-> FALSE, page |-> SearchNoContainer]

NewsNoContainerResponse ==
    [is_error |-> FALSE, page |-> [web |-> FALSE, news |-> <<>>]]

\* C7 as stated: on a page without video items search_videos raises an
\* error of another kind than the error search and search_news raise for a
\* missing results container.
C7_EmptyResultOfOtherKind ==
    (fn = "search_videos" /\ ~arg.is_error /\ arg.page.results = <<>>) =>
        /\ Raised(out)
        /\ out.exc # search(SearchNoContainerResponse).exc
        /\ out.exc # search_news(NewsNoContainerResponse).exc

\* C7 amended: on a page without video items search_videos raises the
\* empty-result error, an AssertionError; the error search and search_news
\* raise for a missing results container is an AssertionError too, and the
\* two differ by their message only.
C7_EmptyResultSameKindOtherMessage ==
    /\ (fn = "search_videos" /\ ~arg.is_error /\ arg.page.results = <<>>) =>
           out = Raise("AssertionError", EmptyResultMessage)
    /\ (fn = "search" /\ ~arg.is_error /\ ~arg.page.search) =>
           /\ Raised(out)
           /\ out.exc = "AssertionError"
           /\ out.msg # EmptyResultMessage
    /\ (fn = "search_news" /\ ~arg.page.web) =>
           /\ Raised(out)
           /\ out.exc = "AssertionError"
           /\ out.msg # EmptyResultMessage

\* C7's case: search_videos has failed on a page without video items.
C7_Witness ==
    /\ fn = "search_videos"
    /\ ~arg.is_error
    /\ arg.page.results = <<>>
    /\ Raised(out)

\* The rows of the table that count: the first seven.
CountedRows(table) == 1..Min(Len(table), 7)

\* C8 as stated: the forecast weather returns has exactly min(N, 7) keys
\* for a table of N rows.
C8_OneKeyPerRow ==
    (fn = "weather" /\ Returned(out)) =>
        Cardinality(DOMAIN out.value.forecast)
            = Min(Len(arg.page.weather_table), 7)

\* C8 amended: the forecast weather returns has one key per distinct day
\* label among the first min(N, 7) rows, each a weekday name: min(N, 7)
\* keys when those labels differ pairwise, fewer when a label repeats, the
\* entry then being that of the last of the rows with the label; a day
\* without a row among them has no entry.
C8_OneKeyPerDistinctLabel ==
    (fn = "weather" /\ Returned(out)) =>
        LET table == arg.page.weather_table
            rows == CountedRows(table)
            forecast == out.value.forecast
        IN  /\ DOMAIN forecast = {table[i].day[1] : i \in rows}
            /\ DOMAIN forecast \subseteq Weekdays
            /\ Cardinality(DOMAIN forecast) <= Cardinality(rows)
            /\ (\A i, j \in rows : i # j => table[i].day # table[j].day)
                   => Cardinality(DOMAIN forecast) = Cardinality(rows)
            /\ \A day \in DOMAIN forecast :
                  \E i \in rows :
                     /\ table[i].day = Some(day)
                     /\ \A j \in rows : table[j].day = Some(day) => j <= i
                     /\ Some(forecast[day].weather.text)
                            = table[i].weather[1].attributes.alt

\* C8's case: a table of more than seven rows, two of the first seven with
\* the same day label, and a forecast returned.
C8_Witness ==
    /\ fn = "weather"
    /\ Returned(out)
    /\ Len(arg.page.weather_table) > 7
    /\ Cardinality(DOMAIN out.value.forecast) = 6

\* C9: for a body that is a JSON array of two elements or more,
\* autocomplete returns the second element as it is: the same suggestions,
\* in the same order, none changed.
C9_SecondElementVerbatim ==
    (fn = "autocomplete" /\ arg.body.type = "array"
        /\ Len(arg.body.items) >= 2) =>
        /\ Returned(out)
        /\ Len(out.value) = Len(arg.body.items[2])
        /\ \A i \in 1..Len(out.value) : out.value[i] = arg.body.items[2][i]

\* C9's case: a list returned that is not sorted and repeats a suggestion.
C9_Witness ==
    /\ fn = "autocomplete"
    /\ Returned(out)
    /\ out.value = <<"cake", "Cake ", "cake">>

\* The items whose anchor carries a `data` attribute that is a JSON
\* object, the rest of the item being well formed.
VideosWithData ==
    {[FullVideo EXCEPT !.anchor = VideoAnchor(Some(d))] :
        d \in {DataWithPreview, DataNullM, DataEmptyM, DataNoM}}

DataOf(item) == json_loads(item.anchor[1].attributes.data[1]).value.members

\* C10 as stated: when every item's anchor has such a `data` attribute,
\* search_videos does not fail, and an item has no preview when its "m" is
\* null or absent and has one only when its "m" is not null.
C10_NoPreviewWithoutM ==
    (fn = "search_videos" /\ ~arg.is_error /\ arg.page.results # <<>>
        /\ \A i \in DOMAIN arg.page.results :
              arg.page.results[i] \in VideosWithData) =>
        /\ Returned(out)
        /\ \A i \in DOMAIN arg.page.results :
              LET meta == DataOf(arg.page.results[i])
                  hasM == "m" \in DOMAIN meta /\ meta.m # JNull
              IN  /\ ~hasM => out.value.videos[i].video_preview = None
                  /\ out.value.videos[i].video_preview # None => hasM

=============================================================================
